---- MODULE Spec2Model ----
(***************************************************************************)
(* AVA chess engine: the depth-limited minimax search with alpha-beta      *)
(* pruning, its move orderer, its top-level play/search entry points and   *)
(* its time policy, in the two variants of the repository:                 *)
(*   "strategies"  AVAChessEngine in src/strategies.py                     *)
(*   "AVA_engine"  the module-level functions of src/AVA_engine.py         *)
(*                                                                         *)
(* The Board collaborator (python-chess) is abstract.  A position is the   *)
(* root position the host hands to play plus the moves pushed on top of    *)
(* it; `board` is that stack of moves.  What the Board answers about a     *)
(* position (number of legal moves, in check, draw conditions, which moves *)
(* capture) and what the evaluator returns for it are fixed per game by    *)
(* NodeKey: a bounded family of NumGames game trees, every tree MaxPly     *)
(* plies deep with at most MaxMoves legal moves per position.              *)
(*                                                                         *)
(* The recursion is an explicit call stack `frames`, one record per        *)
(* minimax call that has not returned yet.                                 *)
(***************************************************************************)
EXTENDS Integers, Sequences, FiniteSets, TLC

VARIABLES
    variant,      \* which source variant runs
    game,         \* which game tree the Board plays on
    root_turn,    \* board.turn of the root position: TRUE = chess.WHITE
    time_left,    \* the time argument of play: [is_int, ms]
    pc,           \* position of the top-level entry point
    depth,        \* the depth play chose
    board,        \* the Board: moves pushed on top of the root position
    frames,       \* the call stack of minimax
    mm,           \* what the outermost minimax returned to play
    outcome,      \* how the entry point ended: "none", "returned", "raised"
    result_move,  \* the move the entry point returned (NoMove = None / "")
    logged,       \* whether the entry point logged an error
    ret,          \* the minimax call that returned in the last step
    pruned,       \* history: some loop of this search broke off before its
                  \* last move
    position,     \* the pieces of the position handed to the evaluator
    table_set,    \* which set of piece-square tables the process loaded
    evaluation    \* what evaluate_position returned for the position and
                  \* for its colour-reversed mirror

vars == <<variant, game, root_turn, time_left, pc, depth, board, frames, mm,
          outcome, result_move, logged, ret, pruned,
          position, table_set, evaluation>>

(***************************************************************************)
(* Bounds of the model.                                                    *)
(***************************************************************************)
MaxMoves == 3
MaxPly == 4
NumGames == 200
MaxEval == 3
MaxSeconds == 130
NumPositions == 300
MaxPieces == 12
NumTables == 2
MaxBonus == 50

(***************************************************************************)
(* Scores.  float('inf') is a value above every score the evaluator can    *)
(* return; the evaluator returns finite numbers only.                      *)
(***************************************************************************)
Inf == MaxEval + 1
NegInf == 0 - Inf
DrawScore == 0

Max(a, b) == IF a >= b THEN a ELSE b
Min(a, b) == IF a <= b THEN a ELSE b

NoMove == 0
WHITE == TRUE
BLACK == FALSE
Variants == {"strategies", "AVA_engine"}

(***************************************************************************)
(* The Board collaborator.                                                 *)
(***************************************************************************)
RECURSIVE NodeKey(_)
NodeKey(path) ==
    IF path = <<>>
    THEN (game * 27449 + 1009) % 1000003
    ELSE (NodeKey(SubSeq(path, 1, Len(path) - 1)) * 1999
            + path[Len(path)] * 1237 + 7) % 1000003

Digit(path, skip, base) == (NodeKey(path) \div skip) % base

\* number of legal moves of the position; the tree ends at MaxPly
NumLegal(path) ==
    IF Len(path) >= MaxPly THEN 0
    ELSE LET d == Digit(path, 1, 3 * MaxMoves + 1)
         IN IF d = 0 THEN 0 ELSE ((d - 1) % MaxMoves) + 1

\* board.legal_moves, in the order the Board enumerates them
legal_moves(path) == [m \in 1..NumLegal(path) |-> m]

\* board.is_check(): the side to move is in check
is_check(path) == Digit(path, 3 * MaxMoves + 1, 3) = 0

DrawKind(path) == Digit(path, (3 * MaxMoves + 1) * 3, 32)

is_checkmate(path) == NumLegal(path) = 0 /\ is_check(path)
is_stalemate(path) == NumLegal(path) = 0 /\ ~is_check(path)
is_insufficient_material(path) == DrawKind(path) = 0
is_seventyfive_moves(path) == DrawKind(path) = 1
is_fivefold_repetition(path) == DrawKind(path) = 2
\* board.is_repetition(3): the position occurred at least three times
is_repetition3(path) == DrawKind(path) \in {2, 3}

\* board.is_game_over(claim_draw=True): a threefold repetition ends the game
is_game_over_claim_draw(path) ==
    \/ NumLegal(path) = 0
    \/ is_insufficient_material(path)
    \/ is_seventyfive_moves(path)
    \/ is_fivefold_repetition(path)
    \/ is_repetition3(path)
\* board.is_game_over() with its default claim_draw=False: checkmate,
\* insufficient material, no legal move, seventy-five moves, fivefold
\* repetition.  A threefold repetition ends the game only when claimed.
is_game_over(path) ==
    \/ is_checkmate(path)
    \/ is_insufficient_material(path)
    \/ NumLegal(path) = 0
    \/ is_seventyfive_moves(path)
    \/ is_fivefold_repetition(path)

\* board.is_capture(move), for legal move m of the position
is_capture(path, m) ==
    Digit(Append(path, m), (3 * MaxMoves + 1) * 96 * (2 * MaxEval + 1), 2) = 0

\* board.turn after the moves of path
turn(path) == IF Len(path) % 2 = 0 THEN root_turn ELSE ~root_turn

BoardPush(b, m) == Append(b, m)
\* the move stays on the board
BoardPopForgotten(b) == b
\* board.pop(): the Board is what it was before the push
BoardPop(b) == SubSeq(b, 1, Len(b) - 1)

(***************************************************************************)
(* The evaluator, as the search sees it: a finite score per position.      *)
(***************************************************************************)
evaluate_position(path) ==
    Digit(path, (3 * MaxMoves + 1) * 96, 2 * MaxEval + 1) - MaxEval

(***************************************************************************)
(* The evaluator on squares.  A position is the set of its pieces, each a  *)
(* square 0..63 (a1 = 0, h1 = 7, a8 = 56), a piece type and a colour, at   *)
(* most one piece per square.  The piece-square tables come from the       *)
(* module `bonuses`: arrays of NumSquares integers.  The model draws them  *)
(* from a family of NumTables table sets with entries in                   *)
(* -MaxBonus..MaxBonus, every table equal on the files f and 7 - f of each *)
(* rank (left-right symmetric) and otherwise arbitrary.                    *)
(***************************************************************************)
NumSquares == 64
Squares == 0..(NumSquares - 1)
ENGAME_LIMIT == 3915

piece_mg_values ==
    [PAWN |-> 126, ROOK |-> 1276, KNIGHT |-> 781, BISHOP |-> 825,
     QUEEN |-> 2536, KING |-> 20000]

piece_eg_values ==
    [PAWN |-> 208, ROOK |-> 1380, KNIGHT |-> 854, BISHOP |-> 915,
     QUEEN |-> 2682, KING |-> 20000]

pieces_mg_bonuses ==
    [PAWN |-> "pawn_middle_game_bonuses", ROOK |-> "rook_bonuses",
     KNIGHT |-> "knight_bonuses", BISHOP |-> "bishop_bonuses",
     QUEEN |-> "queen_bonuses", KING |-> "king_middle_game_bonuses"]

pieces_eg_bonuses ==
    [PAWN |-> "pawn_end_game_bonuses", ROOK |-> "rook_bonuses",
     KNIGHT |-> "knight_bonuses", BISHOP |-> "bishop_bonuses",
     QUEEN |-> "queen_bonuses", KING |-> "king_end_game_bonuses"]

TableNames ==
    <<"knight_bonuses", "pawn_end_game_bonuses", "pawn_middle_game_bonuses",
      "bishop_bonuses", "rook_bonuses", "queen_bonuses",
      "king_middle_game_bonuses", "king_end_game_bonuses">>

\* the entry of a table of the loaded table set on a rank, for a file and the
\* file opposite it alike
TableEntry(name, rank, file) ==
    LET t == CHOOSE i \in 1..Len(TableNames) : TableNames[i] = name
        side == IF file <= 7 - file THEN file ELSE 7 - file
        k == (((table_set * 27449 + t * 4001 + rank * 211 + side * 37 + 1009)
                 % 1000003) * 1999) % 1000003
    IN (k % (2 * MaxBonus + 1)) - MaxBonus

\* a table of the module bonuses
bonuses(name) ==
    [idx \in Squares |-> TableEntry(name, idx \div 8, idx % 8)]

\* the table as it is
not_reversed(table) == table
\* table[::-1]
reversed(table) == [idx \in Squares |-> table[NumSquares - 1 - idx]]

NoPiece == [square |-> 0 - 1, piece_type |-> "NONE", color |-> FALSE]

\* board.piece_at(square)
piece_at(pos, square) ==
    IF \E x \in pos : x.square = square
    THEN CHOOSE x \in pos : x.square = square
    ELSE NoPiece

\* len(board.pieces(piece, color))
count_pieces(pos, piece, color) ==
    Cardinality({x \in pos : x.piece_type = piece /\ x.color = color})

RECURSIVE pieces_score(_, _, _, _)
pieces_score(pos, color, type_of_game, pieces) ==
    IF pieces = {} THEN 0
    ELSE LET piece == CHOOSE t \in pieces : TRUE
         IN count_pieces(pos, piece, color) * type_of_game[piece]
              + pieces_score(pos, color, type_of_game, pieces \ {piece})

\* the value of the pieces of a colour, the king left out
calculate_pieces_values(pos, color, type_of_game) ==
    pieces_score(pos, color, type_of_game, DOMAIN type_of_game \ {"KING"})

is_endgame(pieces_score_of_side) == pieces_score_of_side <= ENGAME_LIMIT

\* endgame: both sides are at or below the limit, by middle game values
endgame_phase(pos) ==
    /\ is_endgame(calculate_pieces_values(pos, WHITE, piece_mg_values))
    /\ is_endgame(calculate_pieces_values(pos, BLACK, piece_mg_values))

\* the bonus of the piece on a square for the material of a colour
square_bonus(pos, color, endgame, square) ==
    LET piece == piece_at(pos, square)
        table == IF endgame THEN bonuses(pieces_eg_bonuses[piece.piece_type])
                            ELSE bonuses(pieces_mg_bonuses[piece.piece_type])
    IN IF piece = NoPiece \/ piece.color # color THEN 0
       ELSE IF piece.color = WHITE THEN reversed(table)[square]
       ELSE table[square]

\* the loop over chess.SQUARES, from a square on
RECURSIVE square_bonuses(_, _, _, _)
square_bonuses(pos, color, endgame, square) ==
    IF square = NumSquares THEN 0
    ELSE square_bonus(pos, color, endgame, square)
           + square_bonuses(pos, color, endgame, square + 1)

\* evaluate_position of a position given by its pieces
evaluate_squares(pos) ==
    LET left_white_material ==
            calculate_pieces_values(pos, WHITE, piece_mg_values)
        left_black_material ==
            calculate_pieces_values(pos, BLACK, piece_mg_values)
        endgame ==
            is_endgame(left_white_material) /\ is_endgame(left_black_material)
        white_material ==
            (IF endgame
             THEN calculate_pieces_values(pos, WHITE, piece_eg_values)
             ELSE left_white_material)
              + square_bonuses(pos, WHITE, endgame, 0)
        black_material ==
            (IF endgame
             THEN calculate_pieces_values(pos, BLACK, piece_eg_values)
             ELSE left_black_material)
              + square_bonuses(pos, BLACK, endgame, 0)
    IN white_material - black_material

\* nothing evaluated yet
NoEvaluation ==
    [score |-> 0, endgame |-> FALSE, mirror_score |-> 0,
     mirror_endgame |-> FALSE]

(***************************************************************************)
(* Time policy.  play divides the remaining milliseconds by 1000 (true     *)
(* division) and compares the seconds with the thresholds; for an integer  *)
(* ms, ms / per <= s is ms <= s * per.                                     *)
(***************************************************************************)
IntTime(ms) == [is_int |-> TRUE, ms |-> ms]
\* the first call's time-control descriptor (chess.engine.Limit), not an int
LimitDescriptor == [is_int |-> FALSE, ms |-> 0]

\* the thresholds with < for <=
calculate_engine_depth_shifted(ms, per) ==
    IF ms < 5 * per THEN 1
    ELSE IF ms < 15 * per THEN 2
    ELSE IF ms < 30 * per THEN 3
    ELSE 4
calculate_engine_depth(ms, per) ==
    IF ms <= 5 * per THEN 1
    ELSE IF ms <= 15 * per THEN 2
    ELSE IF ms <= 30 * per THEN 3
    ELSE 4

\* the depth chosen by AVAChessEngine.play
play_depth(t) ==
    IF t.is_int THEN calculate_engine_depth(t.ms, 1000) ELSE 4

\* the depth chosen by play of AVA_engine.py
ava_play_depth(t) ==
    IF t.is_int
    THEN IF t.ms <= 15 * 1000 THEN 1
         ELSE IF t.ms <= 30 * 1000 THEN 2
         ELSE IF t.ms <= 60 * 3 * 1000 THEN 3
         ELSE 4
    ELSE 4

\* the times the search is started with
TimeInputs ==
    {IntTime(4000), IntTime(10000), IntTime(20000), IntTime(120000),
     LimitDescriptor}

(***************************************************************************)
(* Draw predicate of the search and the pieces of the loop body.           *)
(***************************************************************************)
is_draw(path) ==
    \/ is_stalemate(path)
    \/ is_insufficient_material(path)
    \/ is_seventyfive_moves(path)
    \/ is_fivefold_repetition(path)
    \/ is_repetition3(path)

\* whether the branch of the loop tests the draw predicate after the
\* checkmate test: both branches in strategies.py, the maximizing branch
\* only in AVA_engine.py
tests_draw(v, white_move) == v = "strategies" \/ white_move

\* line 270 tests the attribute board.is_check, the bound method itself and
\* not the result of calling it; a bound method is truthy for every position
is_check_attribute(path) == TRUE

\* +inf in both branches
checkmate_score_same_sign(white_move) == Inf
\* the checkmate sentinel of a branch
checkmate_score(white_move) == IF white_move THEN Inf ELSE NegInf

\* best_position / value before the loop
initial_best(white_move) == IF white_move THEN NegInf ELSE Inf

\* >= and <= for > and <
improves_or_equals(white_move, current, best) ==
    IF white_move THEN current >= best ELSE current <= best
\* current_position > best_position, current_position < best_position
improves(white_move, current, best) ==
    IF white_move THEN current > best ELSE current < best

\* the cutoff one point early
cutoff_early(alpha, beta) == beta <= alpha + 1
\* if beta <= alpha: break
cutoff(alpha, beta) == beta <= alpha

\* np.concatenate((np_captures, np_checks, np_others))
concatenate(captures, checks, others) == captures \o checks \o others

(***************************************************************************)
(* Call stack.                                                             *)
(***************************************************************************)
NewFrame(d, a, b, w, at) ==
    [depth |-> d, alpha |-> a, beta |-> b, white_move |-> w,
     pc |-> "entry",
     captures |-> <<>>, checks |-> <<>>, others |-> <<>>, j |-> 1,
     sorted_moves |-> <<>>, i |-> 1,
     best_move |-> NoMove, best_position |-> 0, current_position |-> 0,
     \* history, not read by the search
     entry_board |-> at, alpha0 |-> a, beta0 |-> b, scores |-> <<>>]

\* the depth passed on unchanged
child_depth_same(d) == d
\* depth - 1, the depth argument of the recursive call
child_depth(d) == d - 1

\* the flag is True whatever the side to move
white_to_move_always(path) == TRUE
\* board.turn == chess.WHITE, the test play chooses the flag of the outermost
\* call by
white_to_move(path) == turn(path) = WHITE

Top == frames[Len(frames)]
SetTop(f) == [frames EXCEPT ![Len(frames)] = f]

NoRet ==
    [valid |-> FALSE, leaf |-> FALSE, move |-> NoMove, score |-> 0,
     depth |-> 0, alpha0 |-> 0, beta0 |-> 0, white_move |-> FALSE,
     entry_board |-> <<>>, board_after |-> <<>>, sorted_moves |-> <<>>,
     scores |-> <<>>, level |-> 0]

NoResult == [move |-> NoMove, score |-> 0]

\* the top frame f returns (mv, sc) with the board left as b
Return(f, mv, sc, leaf, b) ==
    /\ ret' = [valid |-> TRUE, leaf |-> leaf, move |-> mv, score |-> sc,
               depth |-> f.depth, alpha0 |-> f.alpha0, beta0 |-> f.beta0,
               white_move |-> f.white_move, entry_board |-> f.entry_board,
               board_after |-> b, sorted_moves |-> f.sorted_moves,
               scores |-> f.scores, level |-> Len(frames)]
    /\ IF Len(frames) = 1
       THEN /\ frames' = <<>>
            /\ mm' = [move |-> mv, score |-> sc]
            /\ pc' = "returned"
       ELSE /\ frames' = [SubSeq(frames, 1, Len(frames) - 1)
                            EXCEPT ![Len(frames) - 1] =
                                [@ EXCEPT !.current_position = sc,
                                          !.pc = "pop"]]
            /\ UNCHANGED <<mm, pc>>

Inputs == <<variant, game, root_turn, time_left>>
Ending == <<outcome, result_move, logged>>
Evaluator == <<position, table_set, evaluation>>

(***************************************************************************)
(* The initial state: the host is about to call the entry point.           *)
(***************************************************************************)
Init ==
    /\ variant \in Variants
    /\ game \in 1..NumGames
    /\ root_turn \in {WHITE, BLACK}
    /\ time_left \in TimeInputs
    /\ pc = "start"
    /\ depth = 0
    /\ board = <<>>
    /\ frames = <<>>
    /\ mm = NoResult
    /\ outcome = "none"
    /\ result_move = NoMove
    /\ logged = FALSE
    /\ ret = NoRet
    /\ pruned = FALSE
    /\ position = {}
    /\ table_set = 1
    /\ evaluation = NoEvaluation

(***************************************************************************)
(* play, up to its call of minimax: the depth from the time policy, the    *)
(* full window, and the side flag from board.turn.                         *)
(***************************************************************************)
Play ==
    /\ pc = "start"
    /\ depth' = IF variant = "strategies" THEN play_depth(time_left)
                                         ELSE ava_play_depth(time_left)
    /\ frames' = <<NewFrame(depth', NegInf, Inf, white_to_move(board), board)>>
    /\ pc' = "searching"
    /\ ret' = NoRet
    /\ UNCHANGED <<Inputs, Evaluator, board, mm, Ending, pruned>>

(***************************************************************************)
(* minimax: the leaf test.                                                 *)
(***************************************************************************)
MinimaxLeaf ==
    /\ pc = "searching" /\ frames # <<>> /\ Top.pc = "entry"
    /\ Top.depth = 0 \/ is_game_over(board)
    /\ Return(Top, NoMove, evaluate_position(board), TRUE, board)
    /\ UNCHANGED <<Inputs, Evaluator, depth, board, Ending, pruned>>

\* not a leaf: strategies.py orders the moves first, AVA_engine.py loops
\* over board.legal_moves as enumerated
MinimaxExpand ==
    /\ pc = "searching" /\ frames # <<>> /\ Top.pc = "entry"
    /\ ~(Top.depth = 0 \/ is_game_over(board))
    /\ frames' = SetTop(
         IF variant = "strategies"
         THEN [Top EXCEPT !.pc = "sort"]
         ELSE [Top EXCEPT !.pc = "loop",
                          !.sorted_moves = legal_moves(board),
                          !.best_position = initial_best(Top.white_move)])
    /\ ret' = NoRet
    /\ UNCHANGED <<Inputs, Evaluator, pc, depth, board, mm, Ending, pruned>>

(***************************************************************************)
(* _sort_moves: one legal move per step.                                   *)
(***************************************************************************)
SortCapture ==
    /\ pc = "searching" /\ frames # <<>> /\ Top.pc = "sort"
    /\ Top.j <= NumLegal(board)
    /\ is_capture(board, legal_moves(board)[Top.j])
    /\ frames' = SetTop([Top EXCEPT
            !.captures = Append(@, legal_moves(board)[Top.j]),
            !.j = @ + 1])
    /\ ret' = NoRet
    /\ UNCHANGED <<Inputs, Evaluator, pc, depth, board, mm, Ending, pruned>>

SortPush ==
    /\ pc = "searching" /\ frames # <<>> /\ Top.pc = "sort"
    /\ Top.j <= NumLegal(board)
    /\ ~is_capture(board, legal_moves(board)[Top.j])
    /\ board' = BoardPush(board, legal_moves(board)[Top.j])
    /\ frames' = SetTop([Top EXCEPT !.pc = "sort_pushed"])
    /\ ret' = NoRet
    /\ UNCHANGED <<Inputs, Evaluator, pc, depth, mm, Ending, pruned>>

SortPop ==
    /\ pc = "searching" /\ frames # <<>> /\ Top.pc = "sort_pushed"
    /\ LET move == board[Len(board)] IN
       frames' = SetTop(
         IF is_check_attribute(board)
         THEN [Top EXCEPT !.checks = Append(@, move), !.j = @ + 1,
                          !.pc = "sort"]
         ELSE [Top EXCEPT !.others = Append(@, move), !.j = @ + 1,
                          !.pc = "sort"])
    /\ board' = BoardPop(board)
    /\ ret' = NoRet
    /\ UNCHANGED <<Inputs, Evaluator, pc, depth, mm, Ending, pruned>>

SortDone ==
    /\ pc = "searching" /\ frames # <<>> /\ Top.pc = "sort"
    /\ Top.j > NumLegal(board)
    /\ frames' = SetTop([Top EXCEPT
            !.sorted_moves = concatenate(Top.captures, Top.checks, Top.others),
            !.best_position = initial_best(Top.white_move),
            !.pc = "loop"])
    /\ ret' = NoRet
    /\ UNCHANGED <<Inputs, Evaluator, pc, depth, board, mm, Ending, pruned>>

(***************************************************************************)
(* minimax: the loop over the moves.                                       *)
(***************************************************************************)
LoopPush ==
    /\ pc = "searching" /\ frames # <<>> /\ Top.pc = "loop"
    /\ Top.i <= Len(Top.sorted_moves)
    /\ board' = BoardPush(board, Top.sorted_moves[Top.i])
    /\ frames' = SetTop([Top EXCEPT !.pc = "pushed"])
    /\ ret' = NoRet
    /\ UNCHANGED <<Inputs, Evaluator, pc, depth, mm, Ending, pruned>>

\* the loop ran out of moves: return best_move, best_position
LoopReturn ==
    /\ pc = "searching" /\ frames # <<>> /\ Top.pc = "loop"
    /\ Top.i > Len(Top.sorted_moves)
    /\ Return(Top, Top.best_move, Top.best_position, FALSE, board)
    /\ UNCHANGED <<Inputs, Evaluator, depth, board, Ending, pruned>>

ScoreCheckmate ==
    /\ pc = "searching" /\ frames # <<>> /\ Top.pc = "pushed"
    /\ is_checkmate(board)
    /\ frames' = SetTop([Top EXCEPT
            !.current_position = checkmate_score(Top.white_move),
            !.pc = "pop"])
    /\ ret' = NoRet
    /\ UNCHANGED <<Inputs, Evaluator, pc, depth, board, mm, Ending, pruned>>

ScoreDraw ==
    /\ pc = "searching" /\ frames # <<>> /\ Top.pc = "pushed"
    /\ ~is_checkmate(board)
    /\ tests_draw(variant, Top.white_move) /\ is_draw(board)
    /\ frames' = SetTop([Top EXCEPT !.current_position = DrawScore,
                                    !.pc = "pop"])
    /\ ret' = NoRet
    /\ UNCHANGED <<Inputs, Evaluator, pc, depth, board, mm, Ending, pruned>>

Recurse ==
    /\ pc = "searching" /\ frames # <<>> /\ Top.pc = "pushed"
    /\ ~is_checkmate(board)
    /\ ~(tests_draw(variant, Top.white_move) /\ is_draw(board))
    /\ frames' = Append(SetTop([Top EXCEPT !.pc = "wait"]),
                        NewFrame(child_depth(Top.depth), Top.alpha, Top.beta,
                                 ~Top.white_move, board))
    /\ ret' = NoRet
    /\ UNCHANGED <<Inputs, Evaluator, pc, depth, board, mm, Ending, pruned>>

\* board.pop(), the update of best_move / best_position and of the window,
\* and the break on beta <= alpha, after which the function returns
PopUpdate ==
    /\ pc = "searching" /\ frames # <<>> /\ Top.pc = "pop"
    /\ board' = BoardPop(board)
    /\ LET f == Top
           cur == f.current_position
           better == improves(f.white_move, cur, f.best_position)
           g == [f EXCEPT
                   !.best_move = IF better THEN f.sorted_moves[f.i] ELSE @,
                   !.best_position = IF better THEN cur ELSE @,
                   !.alpha = IF f.white_move THEN Max(@, cur) ELSE @,
                   !.beta = IF f.white_move THEN @ ELSE Min(@, cur),
                   !.scores = Append(@, cur)]
       IN IF cutoff(g.alpha, g.beta)
          THEN /\ Return(g, g.best_move, g.best_position, FALSE, board')
               /\ pruned' = (pruned \/ f.i < Len(f.sorted_moves))
          ELSE /\ frames' = SetTop([g EXCEPT !.i = @ + 1, !.pc = "loop"])
               /\ ret' = NoRet
               /\ UNCHANGED <<mm, pc, pruned>>
    /\ UNCHANGED <<Inputs, Evaluator, depth, Ending>>

(***************************************************************************)
(* The entry point after minimax returned: the log lines and the fallback. *)
(* strategies.py returns the first legal move when minimax gave none.      *)
(* AVA_engine.py subscripts board.legal_moves, which the Board's legal     *)
(* move generator does not support: the TypeError is caught with the other *)
(* faults, logged, and play returns None.                                  *)
(***************************************************************************)
\* no fallback: the empty move of minimax is returned
no_fallback_move(path) == NoMove
\* for move in board.legal_moves: return move
first_legal_move(path) ==
    IF NumLegal(path) > 0 THEN legal_moves(path)[1] ELSE NoMove

PlayFinish ==
    /\ pc = "returned"
    /\ pc' = "done"
    /\ outcome' = "returned"
    /\ IF mm.move # NoMove
       THEN result_move' = mm.move /\ logged' = FALSE
       ELSE IF variant = "strategies"
            THEN result_move' = first_legal_move(board) /\ logged' = FALSE
            ELSE result_move' = NoMove /\ logged' = TRUE
    /\ ret' = NoRet
    /\ UNCHANGED <<Inputs, Evaluator, depth, board, frames, mm, pruned>>

(***************************************************************************)
(* A fault raised by the Board or the evaluator at any point of the search *)
(* or of the steps after it.  No frame of minimax catches it.  search of   *)
(* strategies.py logs it and raises it again; play of AVA_engine.py logs   *)
(* it and falls off the end of the function, returning None.               *)
(***************************************************************************)
reraises(v) == v = "strategies"

Fault ==
    /\ pc \in {"searching", "returned"}
    /\ frames' = <<>>
    /\ pc' = "done"
    /\ logged' = TRUE
    /\ outcome' = IF reraises(variant) THEN "raised" ELSE "returned"
    /\ result_move' = NoMove
    /\ ret' = NoRet
    /\ UNCHANGED <<Inputs, Evaluator, depth, board, mm, pruned>>

Next ==
    \/ Play
    \/ MinimaxLeaf
    \/ MinimaxExpand
    \/ SortCapture
    \/ SortPush
    \/ SortPop
    \/ SortDone
    \/ LoopPush
    \/ LoopReturn
    \/ ScoreCheckmate
    \/ ScoreDraw
    \/ Recurse
    \/ PopUpdate
    \/ PlayFinish
    \/ Fault

Spec == Init /\ [][Next]_vars

(***************************************************************************)
(* The time policy alone: the host calls play with one time after another; *)
(* only the depth play derives from it is followed.                        *)
(***************************************************************************)
TimeGrid ==
    {IntTime(s * 1000 + d) : s \in 0..MaxSeconds, d \in {0, 1}}
        \cup {LimitDescriptor}

InitTime ==
    /\ variant = "strategies"
    /\ game = 1
    /\ root_turn = WHITE
    /\ time_left = LimitDescriptor
    /\ pc = "time_start"
    /\ depth = 0
    /\ board = <<>>
    /\ frames = <<>>
    /\ mm = NoResult
    /\ outcome = "none"
    /\ result_move = NoMove
    /\ logged = FALSE
    /\ ret = NoRet
    /\ pruned = FALSE
    /\ position = {}
    /\ table_set = 1
    /\ evaluation = NoEvaluation

\* one call of play, as far as the depth: lines 372-376
TimePolicy ==
    /\ pc \in {"time_start", "timed"}
    /\ \E t \in TimeGrid :
          /\ time_left' = t
          /\ depth' = play_depth(t)
    /\ pc' = "timed"
    /\ UNCHANGED <<variant, game, root_turn, board, frames, mm, Ending,
                   ret, pruned, Evaluator>>

NextTime == TimePolicy

SpecTime == InitTime /\ [][NextTime]_vars

(***************************************************************************)
(* The evaluator alone: a position of a bounded family of NumPositions     *)
(* positions (both kings and up to MaxPieces other pieces, anywhere on the *)
(* board) is evaluated, and then its colour-reversed mirror is.            *)
(***************************************************************************)
PositionKey(n, i) ==
    (((n * 27449 + i * 1237 + 1009) % 1000003) * 1999) % 1000003

NonKingTypes == <<"PAWN", "KNIGHT", "BISHOP", "ROOK", "QUEEN">>

SampledPiece(n, i) ==
    LET k == PositionKey(n, i)
    IN [square |-> k % NumSquares,
        piece_type |-> IF i <= 2 THEN "KING"
                       ELSE NonKingTypes[((k \div NumSquares) % 5) + 1],
        color |-> IF i = 1 THEN WHITE
                  ELSE IF i = 2 THEN BLACK
                  ELSE (k \div (NumSquares * 5)) % 2 = 0]

\* the pieces of position n; a piece drawn for an occupied square is left out
SampledPosition(n) ==
    LET placed == 2 + (PositionKey(n, 0) % (MaxPieces + 1))
    IN {SampledPiece(n, i) :
          i \in {i \in 1..placed :
                   \A j \in 1..(i - 1) :
                       SampledPiece(n, j).square # SampledPiece(n, i).square}}

\* the square on the same file with rank r exchanged for rank 9 - r
mirror_square(square) == 8 * (7 - (square \div 8)) + (square % 8)

\* every piece's colour swapped and the board mirrored top to bottom
color_reversed_mirror(pos) ==
    {[square |-> mirror_square(x.square), piece_type |-> x.piece_type,
      color |-> ~x.color] : x \in pos}

InitEval ==
    /\ variant = "strategies"
    /\ game = 1
    /\ root_turn = WHITE
    /\ time_left = LimitDescriptor
    /\ pc = "evaluate"
    /\ depth = 0
    /\ board = <<>>
    /\ frames = <<>>
    /\ mm = NoResult
    /\ outcome = "none"
    /\ result_move = NoMove
    /\ logged = FALSE
    /\ ret = NoRet
    /\ pruned = FALSE
    /\ position \in {SampledPosition(n) : n \in 1..NumPositions}
    /\ table_set \in 1..NumTables
    /\ evaluation = NoEvaluation

\* evaluate_position(board) on the position
EvaluatePosition ==
    /\ pc = "evaluate"
    /\ evaluation' = [evaluation EXCEPT
                        !.score = evaluate_squares(position),
                        !.endgame = endgame_phase(position)]
    /\ pc' = "evaluated"
    /\ UNCHANGED <<Inputs, depth, board, frames, mm, Ending, ret, pruned,
                   position, table_set>>

\* evaluate_position(board) on the colour-reversed mirror of the position
EvaluateMirror ==
    /\ pc = "evaluated"
    /\ evaluation' = [evaluation EXCEPT
                        !.mirror_score =
                            evaluate_squares(color_reversed_mirror(position)),
                        !.mirror_endgame =
                            endgame_phase(color_reversed_mirror(position))]
    /\ pc' = "mirror_evaluated"
    /\ UNCHANGED <<Inputs, depth, board, frames, mm, Ending, ret, pruned,
                   position, table_set>>

NextEval ==
    \/ EvaluatePosition
    \/ EvaluateMirror

SpecEval == InitEval /\ [][NextEval]_vars

(***************************************************************************)
(* Reference: minimax over the same tree without a window and without a    *)
(* cutoff, with the leaf rule, the checkmate sentinels and the draw score  *)
(* of AVAChessEngine.minimax.                                              *)
(***************************************************************************)
SetMax(S) == CHOOSE x \in S : \A y \in S : y <= x
SetMin(S) == CHOOSE x \in S : \A y \in S : x <= y

RECURSIVE unpruned_minimax(_, _, _)
unpruned_child(path, m, d, white) ==
    LET c == Append(path, m)
    IN IF NumLegal(c) = 0 /\ is_check(c)
       THEN (IF white THEN Inf ELSE NegInf)
       ELSE IF is_draw(c) THEN 0
       ELSE unpruned_minimax(c, d - 1, ~white)
unpruned_minimax(path, d, white) ==
    IF d = 0 \/ is_game_over(path)
    THEN evaluate_position(path)
    ELSE LET S == {unpruned_child(path, m, d, white) : m \in 1..NumLegal(path)}
         IN IF white THEN SetMax(S) ELSE SetMin(S)

FullWindow(r) == r.alpha0 = NegInf /\ r.beta0 = Inf

\* the position a returned call reached by its k-th ordered move
ChildOf(r, k) == Append(r.entry_board, r.sorted_moves[k])

(***************************************************************************)
(* C1. Push/pop integrity: when a minimax call returns normally, the board *)
(* is what it was when the call was made, in both variants, whatever the   *)
(* depth, the window and the side flag, the moves pushed and popped by     *)
(* _sort_moves and the exit on beta <= alpha included.                     *)
(***************************************************************************)
\* C1: the board after a returned call is the board at its entry
C1_PushPopIntegrity ==
    ret.valid => ret.board_after = ret.entry_board /\ board = ret.entry_board

\* a call below the root that ordered its moves with a push and a pop, and
\* left its loop on a cutoff with moves untried, has returned
C1_Witness ==
    /\ ret.valid /\ ~ret.leaf /\ variant = "strategies"
    /\ ret.entry_board # <<>>
    /\ Len(ret.scores) < Len(ret.sorted_moves)
    /\ \E k \in 1..Len(ret.sorted_moves) :
          ~is_capture(ret.entry_board, ret.sorted_moves[k])

(***************************************************************************)
(* C2. Alpha-beta equivalence: the score AVAChessEngine.minimax returns    *)
(* for the window (-inf, +inf) is the score of the unpruned minimax of the *)
(* same position, depth and side.                                          *)
(***************************************************************************)
\* C2: a returned full-window call carries the unpruned score
C2_AlphaBetaEquivalence ==
    (ret.valid /\ variant = "strategies" /\ FullWindow(ret))
        => ret.score = unpruned_minimax(ret.entry_board, ret.depth,
                                        ret.white_move)

\* the outermost call of a search of depth 3 or more has returned, and
\* some loop of that search was cut off before its last move
C2_Witness ==
    /\ ret.valid /\ variant = "strategies" /\ FullWindow(ret)
    /\ ret.entry_board = <<>> /\ ret.depth >= 3 /\ ~ret.leaf
    /\ pruned
    /\ ret.score \notin {Inf, NegInf, 0}

(***************************************************************************)
(* C3. AVAChessEngine.play returns a legal move of the position whenever   *)
(* the position has one, also when minimax returned no move; with exactly  *)
(* one legal move it returns that move.                                    *)
(***************************************************************************)
\* C3: a move play returns on a root with legal moves is one of them
C3_PlayReturnsLegalMove ==
    (variant = "strategies" /\ pc = "done" /\ outcome = "returned"
        /\ NumLegal(<<>>) >= 1)
        => /\ result_move \in 1..NumLegal(<<>>)
           /\ NumLegal(<<>>) = 1 => result_move = legal_moves(<<>>)[1]

\* minimax searched a root that is not game over and returned no move
\* (no move beat the initial best score); play returned the first legal move
C3_Witness ==
    /\ variant = "strategies" /\ pc = "done" /\ outcome = "returned"
    /\ ~is_game_over(<<>>) /\ NumLegal(<<>>) >= 2
    /\ mm.move = NoMove
    /\ result_move = legal_moves(<<>>)[1]

(***************************************************************************)
(* C4. A fault raised during the search is logged and raised again by the  *)
(* entry point, in both variants: after a fault the call never completes   *)
(* normally.                                                               *)
(***************************************************************************)
\* C4: an entry point that logged a fault ended by raising it
C4_FaultLoggedAndReraised ==
    (pc = "done" /\ logged) => outcome = "raised"

(***************************************************************************)
(* C5. _sort_moves returns the captures, then the non-capturing moves that *)
(* give check, then the quiet moves, each group in the order of the        *)
(* legal-move enumeration.                                                 *)
(***************************************************************************)
MoveRank(path, m) ==
    IF is_capture(path, m) THEN 0
    ELSE IF is_check(Append(path, m)) THEN 1
    ELSE 2

\* C5: in the sequence _sort_moves returns, a move of a lower rank
\* (capture, check, quiet) never follows a move of a higher rank, and two
\* moves of the same rank keep the order of the enumeration
C5_SortOrder ==
    (pc = "searching" /\ frames # <<>> /\ variant = "strategies"
        /\ Top.pc = "loop")
        => \A a, b \in 1..Len(Top.sorted_moves) :
              a < b =>
                LET ma == Top.sorted_moves[a]
                    mb == Top.sorted_moves[b]
                IN \/ MoveRank(board, ma) < MoveRank(board, mb)
                   \/ MoveRank(board, ma) = MoveRank(board, mb) /\ ma < mb

(***************************************************************************)
(* C6. In both variants and in both branches, a move that leads to a       *)
(* position that is not checkmate but is a draw (stalemate, insufficient   *)
(* material, seventy-five moves, fivefold repetition, threefold            *)
(* repetition) is scored 0 at the parent, with no recursive call on that   *)
(* position.                                                               *)
(***************************************************************************)
\* C6: no call is in progress on a drawn position, and a drawn position
\* that is not checkmate is scored 0 before it is popped
C6_DrawScoredZero ==
    /\ \A k \in 1..Len(frames) :
          (frames[k].pc = "wait" /\ k < Len(frames))
              => ~is_draw(frames[k + 1].entry_board)
    /\ (pc = "searching" /\ frames # <<>> /\ Top.pc = "pop"
          /\ ~is_checkmate(board) /\ is_draw(board))
          => Top.current_position = 0

(***************************************************************************)
(* C7. Checkmate scoring.  A move that leads to a checkmate position is    *)
(* scored +inf at a maximizing node and -inf at a minimizing node, with no *)
(* recursive call on that position.                                        *)
(***************************************************************************)
Sentinel(white_move) == IF white_move THEN Inf ELSE NegInf

MateScoredBySentinel ==
    /\ \A k \in 1..Len(frames) :
          (frames[k].pc = "wait" /\ k < Len(frames))
              => ~is_checkmate(frames[k + 1].entry_board)
    /\ (pc = "searching" /\ frames # <<>> /\ Top.pc = "pop"
          /\ is_checkmate(board))
          => Top.current_position = Sentinel(Top.white_move)

\* the ordered moves of the returned call r that mate
MatingMoves(r) ==
    {k \in 1..Len(r.sorted_moves) : is_checkmate(ChildOf(r, k))}

\* C7 as claimed: a node that has a mating move returns the sentinel of its
\* side and stops exploring at that move
C7_MateNodeReturnsSentinel ==
    /\ MateScoredBySentinel
    /\ (ret.valid /\ ~ret.leaf /\ MatingMoves(ret) # {})
          => /\ ret.score = Sentinel(ret.white_move)
             /\ Len(ret.scores) = SetMin(MatingMoves(ret))

\* C7 as amended: a node whose loop reaches a mating move (no cutoff on an
\* earlier move) returns the sentinel of its side and stops exploring at
\* that move; a loop cut off before its first mating move never tries it
C7_TriedMateReturnsSentinel ==
    /\ MateScoredBySentinel
    /\ (ret.valid /\ ~ret.leaf /\ MatingMoves(ret) # {})
          => LET first == SetMin(MatingMoves(ret))
             IN /\ Len(ret.scores) <= first
                /\ Len(ret.scores) = first
                      => ret.score = Sentinel(ret.white_move)

\* a minimizing node returned -inf from its mating move, reached after
\* another move, with a later move left untried
C7_Witness ==
    /\ ret.valid /\ ~ret.leaf /\ ~ret.white_move
    /\ MatingMoves(ret) # {}
    /\ Len(ret.scores) = SetMin(MatingMoves(ret))
    /\ Len(ret.scores) > 1
    /\ Len(ret.scores) < Len(ret.sorted_moves)
    /\ ret.score = NegInf

(***************************************************************************)
(* C8. Tie-break of AVAChessEngine.minimax.                                *)
(***************************************************************************)
BetterOrEqual(white_move, x, y) == IF white_move THEN x >= y ELSE x <= y

\* the first tried move of r whose score no tried move beats
FirstBestTried(r) ==
    SetMin({k \in 1..Len(r.scores) :
              \A n \in 1..Len(r.scores) :
                 BetterOrEqual(r.white_move, r.scores[k], r.scores[n])})

\* the first ordered move of r whose unpruned score is the returned score
EarliestWithScore(r) ==
    {k \in 1..Len(r.sorted_moves) :
        /\ unpruned_child(r.entry_board, r.sorted_moves[k], r.depth,
                          r.white_move) = r.score
        /\ \A n \in 1..(k - 1) :
              unpruned_child(r.entry_board, r.sorted_moves[n], r.depth,
                             r.white_move) # r.score}

\* C8 as claimed: the returned move is the first move in _sort_moves order
\* that scored strictly better than every move before it and that no later
\* move beat; with the full window it is the earliest move whose unpruned
\* minimax score is the returned score
C8_TieBreakFirstBest ==
    (ret.valid /\ ~ret.leaf /\ variant = "strategies")
        => /\ ret.move = ret.sorted_moves[FirstBestTried(ret)]
           /\ FullWindow(ret)
                 => \E k \in EarliestWithScore(ret) :
                       ret.move = ret.sorted_moves[k]

\* C8 as amended: as claimed when some tried move scores strictly better
\* than the initial best score (-inf at a maximizing node, +inf at a
\* minimizing node); when no tried move does, minimax returns no move
C8_TieBreakFirstBestOrNone ==
    (ret.valid /\ ~ret.leaf /\ variant = "strategies")
        => IF \A k \in 1..Len(ret.scores) :
                 ret.scores[k] = Sentinel(~ret.white_move)
           THEN ret.move = NoMove
           ELSE /\ ret.move = ret.sorted_moves[FirstBestTried(ret)]
                /\ FullWindow(ret)
                      => \E k \in EarliestWithScore(ret) :
                            ret.move = ret.sorted_moves[k]

\* a full-window call returned its first best move although a later tried
\* move has the same score
C8_Witness ==
    /\ ret.valid /\ ~ret.leaf /\ variant = "strategies" /\ FullWindow(ret)
    /\ ret.move # NoMove
    /\ \E k \in 1..Len(ret.scores) :
          /\ k > FirstBestTried(ret)
          /\ ret.scores[k] = ret.score
    /\ ret.score \notin {Inf, NegInf}

(***************************************************************************)
(* C9. Leaf rule.                                                          *)
(***************************************************************************)
LeafResult(r) ==
    /\ r.move = NoMove
    /\ r.score = evaluate_position(r.entry_board)
    /\ r.sorted_moves = <<>> /\ r.scores = <<>>
    /\ r.board_after = r.entry_board

\* the conditions the claim lists for a position
ClaimedGameOver(path) ==
    \/ is_checkmate(path)
    \/ is_stalemate(path)
    \/ is_insufficient_material(path)
    \/ is_seventyfive_moves(path)
    \/ is_fivefold_repetition(path)
    \/ is_repetition3(path)

\* the same without the threefold repetition
EndedGame(path) ==
    \/ is_checkmate(path)
    \/ is_stalemate(path)
    \/ is_insufficient_material(path)
    \/ is_seventyfive_moves(path)
    \/ is_fivefold_repetition(path)

\* C9 as claimed: a call is a leaf exactly when depth = 0 or the position is
\* checkmate, stalemate, insufficient material, seventy-five moves,
\* fivefold repetition or repeated three times: such a call never gets past
\* its leaf test, and a leaf returns (no move, evaluate(position)) and
\* applies no move
C9_LeafRuleWithThreefold ==
    /\ \A k \in 1..Len(frames) :
          frames[k].pc # "entry"
              => ~(frames[k].depth = 0
                      \/ ClaimedGameOver(frames[k].entry_board))
    /\ ret.valid =>
          /\ ret.leaf <=>
                (ret.depth = 0 \/ ClaimedGameOver(ret.entry_board))
          /\ ret.leaf => LeafResult(ret)

\* C9 as amended: a call is a leaf exactly when depth = 0 or the position is
\* checkmate, stalemate, insufficient material, seventy-five moves or
\* fivefold repetition; a position repeated three times but not five is
\* searched when depth >= 1; a leaf returns (no move, evaluate(position))
\* and applies no move
C9_LeafRule ==
    /\ \A k \in 1..Len(frames) :
          frames[k].pc # "entry"
              => ~(frames[k].depth = 0 \/ EndedGame(frames[k].entry_board))
    /\ ret.valid =>
          /\ ret.leaf <=> (ret.depth = 0 \/ EndedGame(ret.entry_board))
          /\ ret.leaf => LeafResult(ret)

\* a call with depth >= 1 on a game-over position that has legal moves
\* returned as a leaf
C9_Witness ==
    /\ ret.valid /\ ret.leaf /\ ret.depth >= 1
    /\ NumLegal(ret.entry_board) >= 1
    /\ ret.move = NoMove
    /\ ret.score = evaluate_position(ret.entry_board)

(***************************************************************************)
(* C10. Time-to-depth mapping of AVAChessEngine.play.                      *)
(***************************************************************************)
DepthTable(t) ==
    IF ~t.is_int THEN 4
    ELSE IF t.ms <= 5000 THEN 1
    ELSE IF t.ms <= 15000 THEN 2
    ELSE IF t.ms <= 30000 THEN 3
    ELSE 4

\* C10: after a call of play the depth is the one the table gives for the
\* time (4 for the first call's descriptor), it is in 1..4, and a call with
\* a remaining time at least as large never gives a smaller depth
C10_TimeToDepth ==
    /\ [](pc = "timed" => (depth = DepthTable(time_left) /\ depth \in 1..4))
    /\ [][(pc = "timed" /\ time_left.is_int /\ time_left'.is_int
             /\ time_left'.ms >= time_left.ms) => depth' >= depth]_vars

\* play was called with 15000 ms, the upper end of depth 2
C10_Witness ==
    pc = "timed" /\ time_left = IntTime(15000) /\ depth = 2

(***************************************************************************)
(* C12: the board at the entry of a minimax call.                          *)
(***************************************************************************)
\* the move each not-yet-returned ancestor frame applied before it called
\* its child, outermost first
AncestorMoves ==
    [k \in 1..(Len(frames) - 1) |-> frames[k].sorted_moves[frames[k].i]]

\* C12: at the entry of every minimax call of a search started on the root
\* position, the board is the root position with exactly the moves of the
\* ancestor frames that have not returned on top, in order and one per
\* ancestor; no move of a sibling branch and no move pushed by _sort_moves
\* is left on it
C12_StackInvariant ==
    (pc = "searching" /\ frames # <<>> /\ Top.pc = "entry")
        => /\ Len(board) = Len(frames) - 1
           /\ board = AncestorMoves
           /\ \A k \in 1..(Len(frames) - 1) : frames[k].pc = "wait"

\* a call two levels below the root is entered in strategies.py after its
\* parent and its grandparent each tried and undid an earlier sibling and
\* after _sort_moves pushed and popped moves at both levels
C12_Witness ==
    /\ pc = "searching" /\ variant = "strategies"
    /\ Len(frames) = 3 /\ Top.pc = "entry"
    /\ frames[1].i > 1 /\ frames[2].i > 1
    /\ Len(frames[1].checks) > 0 /\ Len(frames[2].checks) > 0
    /\ board = <<frames[1].sorted_moves[frames[1].i],
                 frames[2].sorted_moves[frames[2].i]>>

(***************************************************************************)
(* C14: the board after a fault.                                           *)
(***************************************************************************)
\* C14: when a fault raised by the Board or by the evaluator during a
\* minimax call has reached the entry point (which logs it), the board is
\* the position the search was started on, every applied move undone
C14_RestoredOnFault ==
    (pc = "done" /\ logged) => board = <<>>

(***************************************************************************)
(* C15: the maximizing flag and the side to move.                          *)
(***************************************************************************)
\* C15: in every search play starts, the flag of every minimax call is true
\* exactly when White is to move on the board the call was entered with;
\* hence a mate found in the loop is scored +infinity exactly when White
\* delivered it (Black is to move in the mated position) and -infinity
\* exactly when Black delivered it
C15_SideFlagAgreement ==
    /\ \A k \in 1..Len(frames) :
          frames[k].white_move = (turn(frames[k].entry_board) = WHITE)
    /\ (pc = "searching" /\ frames # <<>> /\ Top.pc = "entry")
          => Top.white_move = (turn(board) = WHITE)
    /\ (pc = "searching" /\ frames # <<>> /\ Top.pc = "pop"
          /\ is_checkmate(board))
          => /\ Top.current_position = Inf <=> turn(board) = BLACK
             /\ Top.current_position = NegInf <=> turn(board) = WHITE

\* play was called with White to move, and in a call one level below the
\* root Black delivered a mate that was scored -infinity
C15_Witness ==
    /\ pc = "searching" /\ root_turn = WHITE
    /\ Len(frames) = 2 /\ Top.pc = "pop" /\ ~Top.white_move
    /\ is_checkmate(board) /\ turn(board) = WHITE
    /\ Top.current_position = NegInf

(***************************************************************************)
(* C13: termination.  The search without faults, every step of it          *)
(* eventually taken: the interpreter runs the entry point to its end.      *)
(***************************************************************************)
NextSearch ==
    \/ Play
    \/ MinimaxLeaf
    \/ MinimaxExpand
    \/ SortCapture
    \/ SortPush
    \/ SortPop
    \/ SortDone
    \/ LoopPush
    \/ LoopReturn
    \/ ScoreCheckmate
    \/ ScoreDraw
    \/ Recurse
    \/ PopUpdate
    \/ PlayFinish

SpecLive == Init /\ [][NextSearch]_vars /\ WF_vars(NextSearch)

\* the calls nested below the outermost one are at most its depth argument,
\* the k-th frame runs with depth reduced by k - 1, never below 0, and the
\* depth play passes is at most 4
NestingWithinDepth ==
    pc = "searching"
        => /\ depth \in 1..4
           /\ Len(frames) - 1 <= depth
           /\ \A k \in 1..Len(frames) :
                 /\ frames[k].depth = depth - (k - 1)
                 /\ frames[k].depth >= 0

\* C13: every minimax call eventually returns (whenever calls are in
\* progress, the stack of the calls that have not returned eventually
\* empties, and a frame leaves the stack only by returning, the nested
\* calls before the outermost one), the nesting of the recursive calls
\* never exceeds the depth passed to the outermost call, and through play
\* that depth is at most 4
C13_Termination ==
    /\ []NestingWithinDepth
    /\ (frames # <<>>) ~> (frames = <<>> /\ pc = "returned")

\* a search of depth 4 is at its deepest nesting: four recursive calls below
\* the outermost one, the innermost with depth 0
C13_Witness ==
    /\ pc = "searching" /\ depth = 4
    /\ Len(frames) = 5 /\ Top.depth = 0 /\ Top.pc = "entry"

====
